---- MODULE Spec2Model ----
(***************************************************************************)
(* GroupBase of adapter/outboundgroup/groupbase.go: the proxy-set          *)
(* resolver (GetProxies), the delay probe (URLTest), the dial-failure      *)
(* tracker (onDialFailed, onDialSuccess) and the health-check sweep        *)
(* (healthCheck).                                                          *)
(*                                                                         *)
(* Goroutines and calling threads are modelled as a pool of routines, each *)
(* with a program counter that names the source statement it executes      *)
(* next.  One step is one access to shared memory.                         *)
(*                                                                         *)
(* SpecFailure  the failure tracker and the sweep, all routines live       *)
(* SpecProgress the same for routed backends, with a fair scheduler        *)
(* SpecResolve  GetProxies of any group, one caller at a time              *)
(* SpecPass     the same with names that exercise the cross-provider pass  *)
(* SpecDup      the same with providers that may offer a name twice        *)
(* SpecRace     GetProxies with concurrent callers                         *)
(* SpecProbe    URLTest, one caller at a time, with a fair scheduler       *)
(*                                                                         *)
(* The providers, the proxies and the fallback registry are collaborators  *)
(* of GroupBase: a provider is its list and its version, which grows with  *)
(* every update of the list.                                               *)
(***************************************************************************)
EXTENDS Integers, Sequences, FiniteSets, TLC

\* ---------------------------------------------------------------- bounds
NumRoutines == 2      \* goroutines / calling threads that may be live at once
MaxFail == 5          \* countable dial failures reported in one run
MaxRefused == 2       \* connection-refused dial failures reported in one run
MaxSuccess == 1       \* dial successes reported in one run
MaxTicks == 3         \* times the clock may advance in one run
TickSeconds == 2      \* seconds the clock advances at a time
MaxProviders == 2     \* providers a group is configured with
MaxFilters == 2       \* patterns the filter string splits into
MaxLen == 2           \* proxies a provider offers at a time
MaxUpdates == 2       \* provider updates in one run
MaxRaceProviders == 1  \* providers of a group whose GetProxies callers run concurrently
MaxDelay == 2         \* the largest delay a probe reports
MaxProbeFilters == 1  \* patterns of a group whose URLTest is called
MaxProbes == 3        \* proxies offered by the providers of such a group

\* ------------------------------------------------------ program constants
maxFailedTimes == 5
failedTimeoutInterval == 5                 \* seconds

\* time.Time{} is the zero instant; the process runs long after it.
ZeroTime == 0
StartTime == ZeroTime + failedTimeoutInterval + 1

Routines == 1..NumRoutines

\* C.AdapterType: the four sentinel kinds of line 181 and one routed kind.
AdapterTypes == {"Direct", "Compatible", "Reject", "Pass", "Shadowsocks"}

\* err.Error() as a sequence of message fragments.
Errors == { <<"dial tcp", "connection refused">>, <<"dial tcp", "i/o timeout">> }

\* strings.Contains(err.Error(), "connection refused")
ContainsRefused_no(err) == FALSE
ContainsRefused(err) == \E k \in 1..Len(err) : err[k] = "connection refused"

\* types.VehicleType
VehicleTypes == {"HTTP", "Compatible"}

\* A proxy is known to the group by its Name(), a string: here the sequence
\* of its characters.
Names == { <<"a">>, <<"a", "b">> }

\* tunnel.Proxies()["COMPATIBLE"]
Fallback == <<"COMPATIBLE">>

\* The filter patterns: each a regular expression of one literal character.
Patterns == {"a", "b"}

\* All sequences over S of length at most n.
SeqsUpTo(S, n) == UNION { [1..k -> S] : k \in 0..n }

Range(q) == { q[k] : k \in 1..Len(q) }

NoDuplicate(q) == \A j, k \in 1..Len(q) : q[j] = q[k] => j = k

\* What a provider may offer: its proxies have distinct names.
ProxyLists == { q \in SeqsUpTo(Names, MaxLen) : NoDuplicate(q) }

VARIABLES
  providers,      \* gb.providers: the vehicle type of each provider
  filterRegs,     \* gb.filterRegs
  pProxies,       \* per provider: what pd.Proxies() returns
  pVersion,       \* per provider: what pd.Version() returns
  proxies,        \* gb.proxies
  versions,       \* gb.versions
  touch,          \* per routine: the argument of its GetProxies call
  idx,            \* per routine: the index of the range loop it is in
  version,        \* per routine: the local of line 91
  newProxies,     \* per routine: the list it is about to store in gb.proxies
  list,           \* per routine: the local proxies of lines 67 and 116
  ret,            \* per routine: <<r>> when its GetProxies call returns r
  recomputes,     \* history, per provider: entries into the block of line 93
  alone,          \* history, per routine: since its GetProxies call began, no
                  \* provider was updated and no other routine wrote to
                  \* gb.versions or gb.proxies
  failedTestMux,  \* gb.failedTestMux: 0 when free, else the routine holding it
  failedTimes,    \* gb.failedTimes
  failedTime,     \* gb.failedTime
  failedTesting,  \* gb.failedTesting
  now,            \* the wall clock, in seconds
  pc,             \* per routine: the statement it executes next ("off": the
                  \* routine does not exist in this run)
  mode,           \* per routine: how healthCheck was entered ("go" or "call")
  reg,            \* per routine: the value of failedTimes it last loaded or stored
  pending,        \* per routine: providers whose HealthCheck its sweep awaits
  nFail,          \* history: countable failures reported
  nRefused,       \* history: connection-refused failures reported
  nSuccess,       \* history: successes reported
  sweeps,         \* history: sweeps started (failedTesting.Store(true) executed)
  expired,        \* history: a window expiry was taken (line 200)
  lastSentinel,   \* history: <<err>> for the error of the last failure reported
                  \* for a backend of a sentinel kind
  mp,             \* per routine: <<m>> while it is in URLTest, m the map of line 155
  tested,         \* per routine: the local proxies of line 156
  outcome,        \* per routine, per proxy of tested: "run" while its probe
                  \* goroutine runs, then how proxy.URLTest returned
  ctxDone,        \* per routine: the ctx of its URLTest call is cancelled
  result,         \* per routine: <<r>> when its URLTest call returns r
  proxiesLen,     \* per provider: the length word of the slice gb.proxies[i]
                  \* (the variable proxies is its data word: the backing array)
  arg,            \* per routine: the pd.Version() it evaluated as the argument
                  \* of Store (line 86) or of CompareAndSwap (line 92)
  word,           \* per routine: <<a>> when it has read the data word a of the
                  \* slice it appends at line 118
  probe,          \* per routine, per proxy of tested: the line its probe
                  \* goroutine executes next ("end": it has returned)
  delay           \* per routine, per proxy of tested: the delay its probe
                  \* goroutine holds between lines 161 and 164

failVars == <<failedTestMux, failedTimes, failedTime, failedTesting, now, mode,
              reg, pending, nFail, nRefused, nSuccess, sweeps, expired, lastSentinel>>
pdVars == <<pProxies, pVersion>>
getVars == <<proxies, proxiesLen, versions, touch, idx, version, arg, newProxies,
             word, list, ret, recomputes, alone>>
probeVars == <<mp, tested, outcome, probe, delay, ctxDone, result>>
resolverVars == <<providers, filterRegs, pdVars, getVars, probeVars>>
vars == <<providers, filterRegs, pc, failVars, pdVars, getVars, probeVars>>

ProviderIds == 1..Len(providers)

\* NewGroupBase
Init ==
  /\ providers \in SeqsUpTo(VehicleTypes, MaxProviders)
  /\ filterRegs \in SeqsUpTo(Patterns, MaxFilters)
  /\ pProxies = [i \in 1..Len(providers) |-> <<>>]
  /\ pVersion = [i \in 1..Len(providers) |-> 0]
  /\ proxies = [i \in 1..Len(providers) |-> <<>>]
  /\ proxiesLen = [i \in 1..Len(providers) |-> 0]
  /\ versions = [i \in 1..Len(providers) |-> 0]
  /\ touch = [g \in Routines |-> FALSE]
  /\ idx = [g \in Routines |-> 0]
  /\ version = [g \in Routines |-> 0]
  /\ arg = [g \in Routines |-> 0]
  /\ word = [g \in Routines |-> <<>>]
  /\ newProxies = [g \in Routines |-> <<>>]
  /\ list = [g \in Routines |-> <<>>]
  /\ ret = [g \in Routines |-> <<>>]
  /\ recomputes = [i \in 1..Len(providers) |-> 0]
  /\ alone = [g \in Routines |-> TRUE]
  /\ failedTestMux = 0
  /\ failedTimes = 0
  /\ failedTime = ZeroTime
  /\ failedTesting = FALSE
  /\ now = StartTime
  /\ \E k \in Routines : pc = [g \in Routines |-> IF g <= k THEN "idle" ELSE "off"]
  /\ mode = [g \in Routines |-> "go"]
  /\ reg = [g \in Routines |-> 0]
  /\ pending = [g \in Routines |-> {}]
  /\ nFail = 0 /\ nRefused = 0 /\ nSuccess = 0 /\ sweeps = 0 /\ expired = FALSE
  /\ lastSentinel = <<>>
  /\ mp = [g \in Routines |-> <<>>]
  /\ tested = [g \in Routines |-> <<>>]
  /\ outcome = [g \in Routines |-> <<>>]
  /\ probe = [g \in Routines |-> <<>>]
  /\ delay = [g \in Routines |-> <<>>]
  /\ ctxDone = [g \in Routines |-> FALSE]
  /\ result = [g \in Routines |-> <<>>]

Set(g, f, v) == [f EXCEPT ![g] = v]

IsSentinel_none(adapterType) == FALSE
IsSentinel(adapterType) ==
  adapterType \in {"Direct", "Compatible", "Reject", "Pass"}

\* What the caller reported, whatever the handler makes of it.
SentinelReport(adapterType) == adapterType # "Shadowsocks"

\* What the caller reported, whatever the handler makes of it.
RefusedReport(err) == err[Len(err)] = "connection refused"

\* ------------------------------------------------------------ onDialFailed
\* Lines 180-211, up to and including the go statement: routine g is the
\* goroutine the call starts.
onDialFailed(g, adapterType, err) ==
  /\ pc[g] = "idle"
  /\ lastSentinel' = IF SentinelReport(adapterType) THEN <<err>> ELSE lastSentinel
  /\ IF IsSentinel(adapterType)
     THEN UNCHANGED <<pc, mode, nFail, nRefused>>
     ELSE /\ IF RefusedReport(err)
             THEN nRefused < MaxRefused /\ nRefused' = nRefused + 1 /\ nFail' = nFail
             ELSE nFail < MaxFail /\ nFail' = nFail + 1 /\ nRefused' = nRefused
          /\ IF ContainsRefused(err)
             THEN pc' = Set(g, pc, "hc_load") /\ mode' = Set(g, mode, "go")
             ELSE pc' = Set(g, pc, "c_lock") /\ UNCHANGED mode
  /\ UNCHANGED <<resolverVars, failedTestMux, failedTimes, failedTime, failedTesting, now,
                 reg, pending, nSuccess, sweeps, expired>>

\* Line 191: gb.failedTestMux.Lock()
counterLock(g) ==
  /\ pc[g] = "c_lock"
  /\ failedTestMux = 0
  /\ failedTestMux' = g
  /\ pc' = Set(g, pc, "c_load")
  /\ UNCHANGED <<lastSentinel, resolverVars, failedTimes, failedTime, failedTesting, now, mode, reg,
                 pending, nFail, nRefused, nSuccess, sweeps, expired>>

\* Line 194, gb.failedTimes++ : the load.
counterLoad(g) ==
  /\ pc[g] = "c_load"
  /\ reg' = Set(g, reg, failedTimes)
  /\ pc' = Set(g, pc, "c_store")
  /\ UNCHANGED <<lastSentinel, resolverVars, failedTestMux, failedTimes, failedTime, failedTesting, now,
                 mode, pending, nFail, nRefused, nSuccess, sweeps, expired>>

\* Line 194, gb.failedTimes++ : the store.
counterStore(g) ==
  /\ pc[g] = "c_store"
  /\ failedTimes' = reg[g] + 1
  /\ reg' = Set(g, reg, reg[g] + 1)
  /\ pc' = Set(g, pc, "c_first")
  /\ UNCHANGED <<lastSentinel, resolverVars, failedTestMux, failedTime, failedTesting, now, mode,
                 pending, nFail, nRefused, nSuccess, sweeps, expired>>

\* A read of gb.failedTimes by the routine that last wrote reg[g] to it: the
\* writers of lines 231 and 240 hold no lock, so the read observes either the
\* routine's own write or the latest write of another routine.
ReadFailedTimes(g) == {reg[g], failedTimes}

\* Lines 195-197: the first failure of a window records its time.
counterFirst(g) ==
  /\ pc[g] = "c_first"
  /\ \E v \in ReadFailedTimes(g) :
       IF v = 1
       THEN failedTime' = now /\ pc' = Set(g, pc, "c_unlock")
       ELSE failedTime' = failedTime /\ pc' = Set(g, pc, "c_since")
  /\ UNCHANGED <<lastSentinel, resolverVars, failedTestMux, failedTimes, failedTesting, now, mode, reg,
                 pending, nFail, nRefused, nSuccess, sweeps, expired>>

\* Line 199: time.Since(gb.failedTime) > gb.failedTimeoutInterval()
WindowPassed_never(t) == FALSE
WindowPassed(t) == now - t > failedTimeoutInterval

\* Lines 199-202: the window has passed, the counter starts over.
counterSince(g) ==
  /\ pc[g] = "c_since"
  /\ IF WindowPassed(failedTime)
     THEN /\ failedTimes' = 0
          /\ reg' = Set(g, reg, 0)
          /\ expired' = TRUE
          /\ pc' = Set(g, pc, "c_unlock")
     ELSE /\ UNCHANGED <<failedTimes, reg, expired>>
          /\ pc' = Set(g, pc, "c_max")
  /\ UNCHANGED <<lastSentinel, resolverVars, failedTestMux, failedTime, failedTesting, now, mode,
                 pending, nFail, nRefused, nSuccess, sweeps>>

\* Line 205: gb.failedTimes >= gb.maxFailedTimes()
AtThreshold_above(v) == v > maxFailedTimes
AtThreshold(v) == v >= maxFailedTimes

\* Lines 205-208: at the threshold the goroutine calls healthCheck itself,
\* still holding the lock.
counterMax(g) ==
  /\ pc[g] = "c_max"
  /\ \E v \in ReadFailedTimes(g) :
       IF AtThreshold(v)
       THEN pc' = Set(g, pc, "hc_load") /\ mode' = Set(g, mode, "call")
       ELSE pc' = Set(g, pc, "c_unlock") /\ UNCHANGED mode
  /\ UNCHANGED <<lastSentinel, resolverVars, failedTestMux, failedTimes, failedTime, failedTesting, now,
                 reg, pending, nFail, nRefused, nSuccess, sweeps, expired>>

\* Line 192: the deferred gb.failedTestMux.Unlock(); the goroutine ends.
counterUnlock_keep(g) ==
  /\ pc[g] = "c_unlock"
  /\ pc' = Set(g, pc, "idle")
  /\ mode' = Set(g, mode, "go")
  /\ reg' = Set(g, reg, 0)
  /\ UNCHANGED <<lastSentinel, resolverVars, failedTestMux, failedTimes, failedTime,
                 failedTesting, now, pending, nFail, nRefused, nSuccess, sweeps, expired>>
counterUnlock(g) ==
  /\ pc[g] = "c_unlock"
  /\ failedTestMux' = 0
  /\ pc' = Set(g, pc, "idle")
  /\ mode' = Set(g, mode, "go")
  /\ reg' = Set(g, reg, 0)
  /\ UNCHANGED <<lastSentinel, resolverVars, failedTimes, failedTime, failedTesting, now,
                 pending, nFail, nRefused, nSuccess, sweeps, expired>>

\* ------------------------------------------------------------- healthCheck
\* Where healthCheck returns to: the end of a goroutine of its own (line 186)
\* or the caller of line 207.
Return(g) == IF mode[g] = "call" THEN "c_unlock" ELSE "idle"

\* Lines 214-216: if gb.failedTesting.Load() { return }
healthCheckLoad_blind(g) ==
  /\ pc[g] = "hc_load"
  /\ pc' = Set(g, pc, "hc_store")
  /\ UNCHANGED <<resolverVars, failVars>>
healthCheckLoad(g) ==
  /\ pc[g] = "hc_load"
  /\ pc' = Set(g, pc, IF failedTesting THEN Return(g) ELSE "hc_store")
  /\ UNCHANGED <<lastSentinel, resolverVars, failedTestMux, failedTimes, failedTime, failedTesting, now,
                 mode, reg, pending, nFail, nRefused, nSuccess, sweeps, expired>>

\* Lines 218-227: gb.failedTesting.Store(true), then one goroutine per provider.
healthCheckStore(g) ==
  /\ pc[g] = "hc_store"
  /\ failedTesting' = TRUE
  /\ pending' = Set(g, pending, ProviderIds)
  /\ sweeps' = sweeps + 1
  /\ pc' = Set(g, pc, "hc_wait")
  /\ UNCHANGED <<lastSentinel, resolverVars, failedTestMux, failedTimes, failedTime, now, mode, reg,
                 nFail, nRefused, nSuccess, expired>>

\* Lines 223-226: proxyProvider.HealthCheck() of provider p returns, wg.Done().
providerHealthCheck(g, p) ==
  /\ pc[g] = "hc_wait"
  /\ p \in pending[g]
  /\ pending' = Set(g, pending, pending[g] \ {p})
  /\ UNCHANGED <<lastSentinel, resolverVars, failedTestMux, failedTimes, failedTime, failedTesting, now,
                 pc, mode, reg, nFail, nRefused, nSuccess, sweeps, expired>>

\* Lines 229-230: wg.Wait() returns, gb.failedTesting.Store(false).
healthCheckWait_early(g) ==
  /\ pc[g] = "hc_wait"
  /\ failedTesting' = FALSE
  /\ pc' = Set(g, pc, "hc_reset")
  /\ UNCHANGED <<lastSentinel, resolverVars, failedTestMux, failedTimes, failedTime, now, mode,
                 reg, pending, nFail, nRefused, nSuccess, sweeps, expired>>
healthCheckWait(g) ==
  /\ pc[g] = "hc_wait"
  /\ pending[g] = {}
  /\ failedTesting' = FALSE
  /\ pc' = Set(g, pc, "hc_reset")
  /\ UNCHANGED <<lastSentinel, resolverVars, failedTestMux, failedTimes, failedTime, now, mode, reg,
                 pending, nFail, nRefused, nSuccess, sweeps, expired>>

\* Line 231: gb.failedTimes = 0
healthCheckReset(g) ==
  /\ pc[g] = "hc_reset"
  /\ failedTimes' = 0
  /\ reg' = Set(g, reg, 0)
  /\ pc' = Set(g, pc, Return(g))
  /\ UNCHANGED <<lastSentinel, resolverVars, failedTestMux, failedTime, failedTesting, now, mode,
                 pending, nFail, nRefused, nSuccess, sweeps, expired>>

\* ----------------------------------------------------------- onDialSuccess
\* Line 239: the call and its gb.failedTesting.Load(), in the caller's thread g.
onDialSuccess(g) ==
  /\ pc[g] = "idle"
  /\ nSuccess < MaxSuccess
  /\ nSuccess' = nSuccess + 1
  /\ pc' = Set(g, pc, IF ~failedTesting THEN "s_store" ELSE "idle")
  /\ UNCHANGED <<lastSentinel, resolverVars, failedTestMux, failedTimes, failedTime, failedTesting, now,
                 mode, reg, pending, nFail, nRefused, sweeps, expired>>

\* Line 240: gb.failedTimes = 0
onDialSuccessStore(g) ==
  /\ pc[g] = "s_store"
  /\ failedTimes' = 0
  /\ pc' = Set(g, pc, "idle")
  /\ UNCHANGED <<lastSentinel, resolverVars, failedTestMux, failedTime, failedTesting, now, mode, reg,
                 pending, nFail, nRefused, nSuccess, sweeps, expired>>

\* The clock advances.
Tick ==
  /\ now < StartTime + MaxTicks * TickSeconds
  /\ now' = now + TickSeconds
  /\ UNCHANGED <<lastSentinel, resolverVars, failedTestMux, failedTimes, failedTime, failedTesting,
                 pc, mode, reg, pending, nFail, nRefused, nSuccess, sweeps, expired>>

NextFailure ==
  \/ \E g \in Routines, k \in AdapterTypes, e \in Errors : onDialFailed(g, k, e)
  \/ \E g \in Routines : counterLock(g)
  \/ \E g \in Routines : counterLoad(g)
  \/ \E g \in Routines : counterStore(g)
  \/ \E g \in Routines : counterFirst(g)
  \/ \E g \in Routines : counterSince(g)
  \/ \E g \in Routines : counterMax(g)
  \/ \E g \in Routines : counterUnlock(g)
  \/ \E g \in Routines : healthCheckLoad(g)
  \/ \E g \in Routines : healthCheckStore(g)
  \/ \E g \in Routines, p \in ProviderIds : providerHealthCheck(g, p)
  \/ \E g \in Routines : healthCheckWait(g)
  \/ \E g \in Routines : healthCheckReset(g)
  \/ \E g \in Routines : onDialSuccess(g)
  \/ \E g \in Routines : onDialSuccessStore(g)
  \/ Tick

\* The failure tracker and the sweep of a group of MaxProviders providers,
\* all of one vehicle type (the tracker never looks at it).
InitFailure ==
  /\ Init
  /\ \A g \in Routines : pc[g] = "idle"
  /\ filterRegs = <<>>
  /\ Len(providers) = MaxProviders /\ \A i \in ProviderIds : providers[i] = "HTTP"

SpecFailure == InitFailure /\ [][NextFailure]_vars

\* The steps of routine g once it is started: everything but the reports
\* and the clock.
Step(g) ==
  \/ counterLock(g)
  \/ counterLoad(g)
  \/ counterStore(g)
  \/ counterFirst(g)
  \/ counterSince(g)
  \/ counterMax(g)
  \/ counterUnlock(g)
  \/ healthCheckLoad(g)
  \/ healthCheckStore(g)
  \/ \E p \in ProviderIds : providerHealthCheck(g, p)
  \/ healthCheckWait(g)
  \/ healthCheckReset(g)
  \/ onDialSuccessStore(g)

\* The scheduler runs every goroutine that can run, every provider's
\* HealthCheck returns, and a goroutine blocked in Lock() gets the mutex
\* once it stays free.
FailureFairness == \A g \in Routines : WF_vars(Step(g))

\* The failures reported are those of routed backends: for a sentinel kind
\* onDialFailed returns at line 182, in the caller's thread, and there is
\* nothing left to process.
NextProgress ==
  \/ \E g \in Routines, e \in Errors : onDialFailed(g, "Shadowsocks", e)
  \/ \E g \in Routines : Step(g)
  \/ \E g \in Routines : onDialSuccess(g)
  \/ Tick

SpecProgress == InitFailure /\ [][NextProgress]_vars /\ FailureFairness

\* ------------------------------------------------------------- GetProxies
\* filterReg.FindStringMatch(name) # nil, for a pattern of one literal
\* character: the character occurs in the name.
Matches(filterReg, name) == \E k \in 1..Len(name) : name[k] = filterReg

\* Lines 101-109 and 129-137: the inner loop over the proxies for one
\* filter; out is newProxies, whose names are proxiesSet.
RECURSIVE ScanProxies(_, _, _)
ScanProxies(filterReg, ps, out) ==
  IF ps = <<>> THEN out
  ELSE ScanProxies(filterReg, Tail(ps),
                   IF Matches(filterReg, Head(ps)) /\ Head(ps) \notin Range(out)
                   THEN Append(out, Head(ps)) ELSE out)

\* Lines 100-110 and 128-138: the outer loop over the filters.
RECURSIVE ScanFilters(_, _, _)
ScanFilters(regs, ps, out) ==
  IF regs = <<>> THEN out
  ELSE ScanFilters(Tail(regs), ps, ScanProxies(Head(regs), ps, out))

\* Lines 139-145: add not matched proxies at the end.
AddNotMatched_none(ps, out) == out
RECURSIVE AddNotMatched(_, _)
AddNotMatched(ps, out) ==
  IF ps = <<>> THEN out
  ELSE AddNotMatched(Tail(ps),
                     IF Head(ps) \notin Range(out) THEN Append(out, Head(ps)) ELSE out)

\* Lines 98-110: the list a provider's slot is given.
Filtered_all(ps) == ps
Filtered(ps) == ScanFilters(filterRegs, ps, <<>>)

\* Line 125: the cross-provider pass runs.
SecondPass_always == TRUE
SecondPass_never == FALSE
SecondPass == Len(providers) > 1 /\ Len(filterRegs) > 1

\* Lines 121-149: from the concatenation of the slots to the result.
Result(ps) ==
  IF Len(ps) = 0 THEN <<Fallback>>
  ELSE IF SecondPass THEN AddNotMatched(ps, ScanFilters(filterRegs, ps, <<>>))
  ELSE ps

\* Lines 74-77: the result when no filter is configured.
Unfiltered_bare(ps) == ps
Unfiltered(ps) == IF Len(ps) = 0 THEN <<Fallback>> ELSE ps

\* gb.versions[i].CompareAndSwap(old, new) on a cell holding cur:
\* whether it swapped, and what the cell holds afterwards.
CompareAndSwap_blind(cur, old, new) == [ok |-> TRUE, val |-> new]
CompareAndSwap(cur, old, new) ==
  [ok |-> cur = old, val |-> IF cur = old THEN new ELSE cur]

\* History: a write by routine g (0: by a provider) to what the calls in
\* progress read.
Disturbed(g) ==
  [h \in Routines |-> IF h # g /\ pc[h] \notin {"idle", "off"} THEN FALSE ELSE alone[h]]

\* GetProxies is called with argument t by the thread g (line 65).
GetProxies(g, t) ==
  /\ pc[g] = "idle"
  /\ pc' = Set(g, pc, IF Len(filterRegs) = 0 THEN "n_loop" ELSE "f_loop")
  /\ touch' = Set(g, touch, t)
  /\ idx' = Set(g, idx, 1)
  /\ list' = Set(g, list, <<>>)
  /\ UNCHANGED <<probeVars, providers, filterRegs, failVars, pdVars, proxies, proxiesLen,
                 versions, version, arg, newProxies, word, ret, recomputes, alone>>

\* Lines 68-73: one round of the loop without filters.  pd.Touch() (lines 70
\* and 82) stamps the provider's time of last use, which the group never
\* reads: the call leaves the state modelled here as it is.
plainLoop(g) ==
  /\ pc[g] = "n_loop"
  /\ idx[g] <= Len(providers)
  /\ list' = Set(g, list, list[g] \o pProxies[idx[g]])
  /\ idx' = Set(g, idx, idx[g] + 1)
  /\ UNCHANGED <<probeVars, providers, filterRegs, pc, failVars, pdVars, proxies, proxiesLen,
                 versions, touch, version, arg, newProxies, word, ret, recomputes, alone>>

\* Lines 74-77: the loop is over, GetProxies returns.
plainReturn(g) ==
  /\ pc[g] = "n_loop"
  /\ idx[g] > Len(providers)
  /\ ret' = Set(g, ret, <<Unfiltered(list[g])>>)
  /\ pc' = Set(g, pc, "g_done")
  /\ idx' = Set(g, idx, 0)
  /\ list' = Set(g, list, <<>>)
  /\ UNCHANGED <<probeVars, providers, filterRegs, failVars, pdVars, proxies, proxiesLen,
                 versions, touch, version, arg, newProxies, word, recomputes, alone>>

\* Lines 80-91: the head of one round of the loop with filters.  For a
\* Compatible provider the argument pd.Version() of line 86 is evaluated;
\* for any other the cached version is loaded (line 91).
filterLoop_gated(g) ==
  /\ pc[g] = "f_loop"
  /\ idx[g] <= Len(providers)
  /\ version' = Set(g, version, versions[idx[g]])
  /\ pc' = Set(g, pc, "f_cmp")
  /\ UNCHANGED <<probeVars, providers, filterRegs, failVars, pdVars, proxies, proxiesLen,
                 versions, touch, idx, arg, newProxies, word, list, ret, recomputes, alone>>
filterLoop(g) ==
  /\ pc[g] = "f_loop"
  /\ idx[g] <= Len(providers)
  /\ IF providers[idx[g]] = "Compatible"
     THEN /\ arg' = Set(g, arg, pVersion[idx[g]])
          /\ pc' = Set(g, pc, "f_store")
          /\ UNCHANGED version
     ELSE /\ version' = Set(g, version, versions[idx[g]])
          /\ pc' = Set(g, pc, "f_cmp")
          /\ UNCHANGED arg
  /\ UNCHANGED <<probeVars, providers, filterRegs, failVars, pdVars, proxies, proxiesLen,
                 versions, touch, idx, newProxies, word, list, ret, recomputes, alone>>

\* Line 86: gb.versions[i].Store(...), with the argument evaluated before.
filterStore(g) ==
  /\ pc[g] = "f_store"
  /\ versions' = Set(idx[g], versions, arg[g])
  /\ arg' = Set(g, arg, 0)
  /\ alone' = Disturbed(g)
  /\ pc' = Set(g, pc, "f_read")
  /\ UNCHANGED <<probeVars, providers, filterRegs, failVars, pdVars, proxies, proxiesLen,
                 touch, idx, version, newProxies, word, list, ret, recomputes>>

\* Line 92, the left operand of &&: version != pd.Version()
filterCompare(g) ==
  /\ pc[g] = "f_cmp"
  /\ IF version[g] # pVersion[idx[g]]
     THEN /\ pc' = Set(g, pc, "f_arg")
          /\ UNCHANGED <<idx, version>>
     ELSE /\ idx' = Set(g, idx, idx[g] + 1)
          /\ version' = Set(g, version, 0)
          /\ pc' = Set(g, pc, "f_loop")
  /\ UNCHANGED <<probeVars, providers, filterRegs, failVars, pdVars, proxies, proxiesLen,
                 versions, touch, arg, newProxies, word, list, ret, recomputes, alone>>

\* Line 92, the right operand: the argument pd.Version() of CompareAndSwap
\* is evaluated.
filterArg(g) ==
  /\ pc[g] = "f_arg"
  /\ arg' = Set(g, arg, pVersion[idx[g]])
  /\ pc' = Set(g, pc, "f_cas")
  /\ UNCHANGED <<probeVars, providers, filterRegs, failVars, pdVars, proxies, proxiesLen,
                 versions, touch, idx, version, newProxies, word, list, ret, recomputes,
                 alone>>

\* Line 92: gb.versions[i].CompareAndSwap(version, ...), with the argument
\* evaluated before.
filterSwap(g) ==
  /\ pc[g] = "f_cas"
  /\ LET i == idx[g]
         r == CompareAndSwap(versions[i], version[g], arg[g])
     IN /\ versions' = Set(i, versions, r.val)
        /\ alone' = IF r.ok THEN Disturbed(g) ELSE alone
        /\ version' = Set(g, version, 0)
        /\ arg' = Set(g, arg, 0)
        /\ IF r.ok
           THEN /\ recomputes' = Set(i, recomputes, recomputes[i] + 1)
                /\ pc' = Set(g, pc, "f_read")
                /\ UNCHANGED idx
           ELSE /\ idx' = Set(g, idx, i + 1)
                /\ pc' = Set(g, pc, "f_loop")
                /\ UNCHANGED recomputes
  /\ UNCHANGED <<probeVars, providers, filterRegs, failVars, pdVars, proxies, proxiesLen,
                 touch, newProxies, word, list, ret>>

\* Line 87 (the right-hand side) and lines 98-110: pd.Proxies() is read; a
\* provider that is not Compatible has it filtered.
filterRead(g) ==
  /\ pc[g] = "f_read"
  /\ newProxies' = Set(g, newProxies,
                       IF providers[idx[g]] = "Compatible"
                       THEN pProxies[idx[g]] ELSE Filtered(pProxies[idx[g]]))
  /\ pc' = Set(g, pc, "f_write")
  /\ UNCHANGED <<probeVars, providers, filterRegs, failVars, pdVars, proxies, proxiesLen,
                 versions, touch, idx, version, arg, word, list, ret, recomputes, alone>>

\* Lines 87 and 112: gb.proxies[i] is assigned.  The slice is several words
\* and the store is not synchronized: the words are stored one at a time,
\* here the data word.  (The capacity word is never read at lines 117-118;
\* storing the length first gives a reader or a second writer the same
\* mixtures.)
filterWrite(g) ==
  /\ pc[g] = "f_write"
  /\ proxies' = Set(idx[g], proxies, newProxies[g])
  /\ pc' = Set(g, pc, "f_wlen")
  /\ alone' = Disturbed(g)
  /\ UNCHANGED <<probeVars, providers, filterRegs, failVars, pdVars, proxiesLen, versions,
                 touch, idx, version, arg, newProxies, word, list, ret, recomputes>>

\* Lines 87 and 112, the length word of the slice.
filterWriteLen(g) ==
  /\ pc[g] = "f_wlen"
  /\ proxiesLen' = Set(idx[g], proxiesLen, Len(newProxies[g]))
  /\ newProxies' = Set(g, newProxies, <<>>)
  /\ idx' = Set(g, idx, idx[g] + 1)
  /\ pc' = Set(g, pc, "f_loop")
  /\ alone' = Disturbed(g)
  /\ UNCHANGED <<probeVars, providers, filterRegs, failVars, pdVars, proxies, versions,
                 touch, version, arg, word, list, ret, recomputes>>

\* The loop of lines 80-114 is over.
filterLoopEnd(g) ==
  /\ pc[g] = "f_loop"
  /\ idx[g] > Len(providers)
  /\ idx' = Set(g, idx, 1)
  /\ pc' = Set(g, pc, "f_cat")
  /\ UNCHANGED <<probeVars, providers, filterRegs, failVars, pdVars, proxies, proxiesLen,
                 versions, touch, version, arg, newProxies, word, list, ret, recomputes,
                 alone>>

\* Line 117: the slice gb.proxies[i] is read, one word at a time, here the
\* data word.
concatLoop(g) ==
  /\ pc[g] = "f_cat"
  /\ idx[g] <= Len(providers)
  /\ word' = Set(g, word, <<proxies[idx[g]]>>)
  /\ pc' = Set(g, pc, "f_len")
  /\ UNCHANGED <<probeVars, providers, filterRegs, failVars, pdVars, proxies, proxiesLen,
                 versions, touch, idx, version, arg, newProxies, list, ret, recomputes,
                 alone>>

\* A slice made of the data word a and the length word n has the first n
\* elements of a, when a has that many.
Whole(a, n) == n <= Len(a)
Elements(a, n) == SubSeq(a, 1, n)

\* What lies in memory behind an array: the name of some proxy, or of
\* nothing the providers offer.
Stray == <<"?">>
Behind == Names \cup {Stray}

\* The data word a of slot i is nil: the slot of a provider that is not
\* Compatible holds either the nil of line 53 or a newProxies of line 95,
\* which is nil when empty.  (Whether the empty pd.Proxies() stored at line 87
\* is nil is the provider's business.)
IsNil(i, a) == a = <<>> /\ providers[i] # "Compatible"

\* The goroutine read through a nil pointer or into memory it may not read:
\* the runtime panics and the process exits.
Panic == [h \in Routines |-> IF pc[h] = "off" THEN "off" ELSE "panic"]

\* Line 118: what append(proxies, p...) copies from the slice of slot i made
\* of the data word a and the length word n.  Nothing checks n against the
\* array: past its end the copy takes what lies behind it, or faults.
Copies(i, a, n) ==
  IF Whole(a, n) THEN {[panic |-> FALSE, elems |-> Elements(a, n)]}
  ELSE {[panic |-> TRUE, elems |-> <<>>]}
       \cup (IF IsNil(i, a) THEN {}
             ELSE {[panic |-> FALSE, elems |-> a \o t] :
                     t \in [1..(n - Len(a)) -> Behind]})

\* Lines 117-118: the length word is read and the elements are appended.
concatAppend(g) ==
  /\ pc[g] = "f_len"
  /\ \E c \in Copies(idx[g], word[g][1], proxiesLen[idx[g]]) :
       IF c.panic
       THEN /\ pc' = Panic
            /\ UNCHANGED <<list, idx, word>>
       ELSE /\ list' = Set(g, list, list[g] \o c.elems)
            /\ idx' = Set(g, idx, idx[g] + 1)
            /\ word' = Set(g, word, <<>>)
            /\ pc' = Set(g, pc, "f_cat")
  /\ UNCHANGED <<probeVars, providers, filterRegs, failVars, pdVars, proxies, proxiesLen,
                 versions, touch, version, arg, newProxies, ret, recomputes, alone>>

\* Lines 121-149: GetProxies returns.
filterReturn(g) ==
  /\ pc[g] = "f_cat"
  /\ idx[g] > Len(providers)
  /\ ret' = Set(g, ret, <<Result(list[g])>>)
  /\ pc' = Set(g, pc, "g_done")
  /\ idx' = Set(g, idx, 0)
  /\ list' = Set(g, list, <<>>)
  /\ UNCHANGED <<probeVars, providers, filterRegs, failVars, pdVars, proxies, proxiesLen,
                 versions, touch, version, arg, newProxies, word, recomputes, alone>>

\* The caller has taken the result; the frame of the call is gone.  (The
\* call was not the one of line 156.)
callerDone(g) ==
  /\ pc[g] = "g_done"
  /\ mp[g] = <<>>
  /\ pc' = Set(g, pc, "idle")
  /\ touch' = Set(g, touch, FALSE)
  /\ ret' = Set(g, ret, <<>>)
  /\ alone' = Set(g, alone, TRUE)
  /\ UNCHANGED <<probeVars, providers, filterRegs, failVars, pdVars, proxies, proxiesLen,
                 versions, idx, version, arg, list, newProxies, word, recomputes>>

\* The provider updates so far: every update adds one to a version.
RECURSIVE SumTo(_, _)
SumTo(f, n) == IF n = 0 THEN 0 ELSE f[n] + SumTo(f, n - 1)
Updates == SumTo(pVersion, Len(providers))

\* Provider i has a new list and, with it, a new version.
providerUpdate(i, ps) ==
  /\ Updates < MaxUpdates
  /\ pVersion' = Set(i, pVersion, pVersion[i] + 1)
  /\ pProxies' = Set(i, pProxies, ps)
  /\ alone' = Disturbed(0)
  /\ UNCHANGED <<probeVars, providers, filterRegs, pc, failVars, proxies, proxiesLen,
                 versions, touch, idx, version, arg, newProxies, word, list, ret,
                 recomputes>>

NextResolve ==
  \/ \E g \in Routines, t \in BOOLEAN : GetProxies(g, t)
  \/ \E g \in Routines : plainLoop(g)
  \/ \E g \in Routines : plainReturn(g)
  \/ \E g \in Routines : filterLoop(g)
  \/ \E g \in Routines : filterStore(g)
  \/ \E g \in Routines : filterCompare(g)
  \/ \E g \in Routines : filterArg(g)
  \/ \E g \in Routines : filterSwap(g)
  \/ \E g \in Routines : filterRead(g)
  \/ \E g \in Routines : filterWrite(g)
  \/ \E g \in Routines : filterWriteLen(g)
  \/ \E g \in Routines : filterLoopEnd(g)
  \/ \E g \in Routines : concatLoop(g)
  \/ \E g \in Routines : concatAppend(g)
  \/ \E g \in Routines : filterReturn(g)
  \/ \E g \in Routines : callerDone(g)
  \/ \E i \in ProviderIds, ps \in ProxyLists : providerUpdate(i, ps)

\* The resolver of any group, with one caller of GetProxies at a time.
InitResolve ==
  /\ Init
  /\ \A g \in Routines : g > 1 => pc[g] = "off"

SpecResolve == InitResolve /\ [][NextResolve]_vars

\* Names for the cross-provider pass: one that both patterns match, one that
\* only the pattern "b" matches and one that no pattern matches.
PassNames == { <<"a", "b">>, <<"b">>, <<"c">> }
PassLists == { q \in SeqsUpTo(PassNames, MaxLen) : NoDuplicate(q) }

NextPass ==
  \/ \E g \in Routines, t \in BOOLEAN : GetProxies(g, t)
  \/ \E g \in Routines : plainLoop(g)
  \/ \E g \in Routines : plainReturn(g)
  \/ \E g \in Routines : filterLoop(g)
  \/ \E g \in Routines : filterStore(g)
  \/ \E g \in Routines : filterCompare(g)
  \/ \E g \in Routines : filterArg(g)
  \/ \E g \in Routines : filterSwap(g)
  \/ \E g \in Routines : filterRead(g)
  \/ \E g \in Routines : filterWrite(g)
  \/ \E g \in Routines : filterWriteLen(g)
  \/ \E g \in Routines : filterLoopEnd(g)
  \/ \E g \in Routines : concatLoop(g)
  \/ \E g \in Routines : concatAppend(g)
  \/ \E g \in Routines : filterReturn(g)
  \/ \E g \in Routines : callerDone(g)
  \/ \E i \in ProviderIds, ps \in PassLists : providerUpdate(i, ps)

\* The resolver of any group whose providers offer the names of PassNames,
\* with one caller of GetProxies at a time.
SpecPass == InitResolve /\ [][NextPass]_vars

\* The lists of providers that may offer a name more than once.
DupLists == SeqsUpTo(Names, MaxLen)

NextDup ==
  \/ \E g \in Routines, t \in BOOLEAN : GetProxies(g, t)
  \/ \E g \in Routines : plainLoop(g)
  \/ \E g \in Routines : plainReturn(g)
  \/ \E g \in Routines : filterLoop(g)
  \/ \E g \in Routines : filterStore(g)
  \/ \E g \in Routines : filterCompare(g)
  \/ \E g \in Routines : filterArg(g)
  \/ \E g \in Routines : filterSwap(g)
  \/ \E g \in Routines : filterRead(g)
  \/ \E g \in Routines : filterWrite(g)
  \/ \E g \in Routines : filterWriteLen(g)
  \/ \E g \in Routines : filterLoopEnd(g)
  \/ \E g \in Routines : concatLoop(g)
  \/ \E g \in Routines : concatAppend(g)
  \/ \E g \in Routines : filterReturn(g)
  \/ \E g \in Routines : callerDone(g)
  \/ \E i \in ProviderIds, ps \in DupLists : providerUpdate(i, ps)

\* The resolver of any group whose providers offer any list of names, a
\* name twice included, with one caller of GetProxies at a time.
SpecDup == InitResolve /\ [][NextDup]_vars

\* The resolver of a group of up to MaxRaceProviders providers, with
\* concurrent callers of GetProxies.
InitRace ==
  /\ Init
  /\ \A g \in Routines : pc[g] = "idle"
  /\ Len(providers) <= MaxRaceProviders

SpecRace == InitRace /\ [][NextResolve]_vars

\* ---------------------------------------------------------------- URLTest
\* What proxy.URLTest returns next to its error: a delay.
Delays == 1..MaxDelay

\* map[string]uint16{}
EmptyMap == [n \in {} |-> 0]

\* Line 164: mp[proxy.Name()] = delay
Put_drop(m, name, d) == m
Put(m, name, d) ==
  [n \in DOMAIN m \cup {name} |-> IF n = name THEN d ELSE m[n]]

\* Lines 173-177: the error URLTest returns with the map m.
AllTimeout == "get delay: all proxies timeout"
Error_nil(m) == "nil"
Error(m) == IF Cardinality(DOMAIN m) = 0 THEN AllTimeout ELSE "nil"

\* Lines 152-156: URLTest is called by the thread g; it makes the map and
\* calls gb.GetProxies(false).
URLTest(g) ==
  /\ pc[g] = "idle"
  /\ mp' = Set(g, mp, <<EmptyMap>>)
  /\ pc' = Set(g, pc, IF Len(filterRegs) = 0 THEN "n_loop" ELSE "f_loop")
  /\ touch' = Set(g, touch, FALSE)
  /\ idx' = Set(g, idx, 1)
  /\ list' = Set(g, list, <<>>)
  /\ UNCHANGED <<providers, filterRegs, failVars, pdVars, proxies, proxiesLen, versions,
                 version, arg, newProxies, word, ret, recomputes, alone, tested, outcome,
                 probe, delay, ctxDone, result>>

\* Lines 156-170: GetProxies has returned; one goroutine is started for each
\* proxy of the result (wg.Add(1), go).
urlTestLaunch(g) ==
  /\ pc[g] = "g_done"
  /\ mp[g] # <<>>
  /\ tested' = Set(g, tested, ret[g][1])
  /\ outcome' = Set(g, outcome, [k \in 1..Len(ret[g][1]) |-> "run"])
  /\ probe' = Set(g, probe, [k \in 1..Len(ret[g][1]) |-> "l161"])
  /\ delay' = Set(g, delay, [k \in 1..Len(ret[g][1]) |-> 0])
  /\ ret' = Set(g, ret, <<>>)
  /\ alone' = Set(g, alone, TRUE)
  /\ pc' = Set(g, pc, "u_wait")
  /\ UNCHANGED <<providers, filterRegs, failVars, pdVars, proxies, proxiesLen, versions,
                 touch, idx, version, arg, newProxies, word, list, recomputes, mp,
                 ctxDone, result>>

\* The supplied ctx is cancelled while the call is in progress.
ctxCancel(g) ==
  /\ pc[g] = "u_wait"
  /\ ~ctxDone[g]
  /\ ctxDone' = Set(g, ctxDone, TRUE)
  /\ UNCHANGED <<providers, filterRegs, pc, failVars, pdVars, getVars, mp, tested,
                 outcome, probe, delay, result>>

\* How proxy.URLTest(ctx, url) may return: a delay and no error, or no
\* delay and the error of the probe or that of a cancelled ctx.
ProbeErrors == {"timeout", "context canceled"}
ProbeReturns ==
  [delay : Delays, err : {"nil"}] \cup [delay : {0}, err : ProbeErrors]
Returns(g) ==
  {r \in ProbeReturns : r.err = "context canceled" => ctxDone[g]}

\* Line 162: err == nil
Succeeded_always(r) == TRUE
Succeeded(r) == r.err = "nil"

\* Lines 161-162: proxy.URLTest of the k-th proxy returns r to its probe
\* goroutine, which goes on to line 163 without error and to line 168 with.
probeReturn(g, k, r) ==
  /\ pc[g] = "u_wait"
  /\ k \in 1..Len(tested[g])
  /\ probe[g][k] = "l161"
  /\ r \in Returns(g)
  /\ outcome' = Set(g, outcome, Set(k, outcome[g], r.err))
  /\ delay' = Set(g, delay, Set(k, delay[g], r.delay))
  /\ probe' = Set(g, probe, Set(k, probe[g], IF Succeeded(r) THEN "l163" ELSE "l168"))
  /\ UNCHANGED <<providers, filterRegs, pc, failVars, pdVars, getVars, mp, tested,
                 ctxDone, result>>

\* Lines 163-165: the delay is put into the map with lock held.  Nothing
\* but these three lines takes lock or touches the map before wg.Wait()
\* returns, so the critical section is one step.
probeStore(g, k) ==
  /\ pc[g] = "u_wait"
  /\ k \in 1..Len(tested[g])
  /\ probe[g][k] = "l163"
  /\ mp' = Set(g, mp, <<Put(mp[g][1], tested[g][k], delay[g][k])>>)
  /\ delay' = Set(g, delay, Set(k, delay[g], 0))
  /\ probe' = Set(g, probe, Set(k, probe[g], "l168"))
  /\ UNCHANGED <<providers, filterRegs, pc, failVars, pdVars, getVars, tested, outcome,
                 ctxDone, result>>

\* Line 168: wg.Done()
probeDone(g, k) ==
  /\ pc[g] = "u_wait"
  /\ k \in 1..Len(tested[g])
  /\ probe[g][k] = "l168"
  /\ probe' = Set(g, probe, Set(k, probe[g], "end"))
  /\ UNCHANGED <<providers, filterRegs, pc, failVars, pdVars, getVars, mp, tested,
                 outcome, delay, ctxDone, result>>

\* wg.Wait() of line 171 returns: wg.Done() was called for every wg.Add(1).
WaitOver_now(o) == TRUE
WaitOver(o) == \A k \in 1..Len(o) : o[k] = "end"

\* Lines 171-177: the barrier, then the map and the error are returned.
urlTestWait(g) ==
  /\ pc[g] = "u_wait"
  /\ WaitOver(probe[g])
  /\ result' = Set(g, result, <<[mp |-> mp[g][1], err |-> Error(mp[g][1])]>>)
  /\ pc' = Set(g, pc, "u_done")
  /\ UNCHANGED <<providers, filterRegs, failVars, pdVars, getVars, mp, tested,
                 outcome, probe, delay, ctxDone>>

\* The caller has taken the result; the frame of the call is gone.
urlTestDone(g) ==
  /\ pc[g] = "u_done"
  /\ pc' = Set(g, pc, "idle")
  /\ mp' = Set(g, mp, <<>>)
  /\ tested' = Set(g, tested, <<>>)
  /\ outcome' = Set(g, outcome, <<>>)
  /\ probe' = Set(g, probe, <<>>)
  /\ delay' = Set(g, delay, <<>>)
  /\ ctxDone' = Set(g, ctxDone, FALSE)
  /\ result' = Set(g, result, <<>>)
  /\ UNCHANGED <<providers, filterRegs, failVars, pdVars, getVars>>

\* The proxies the providers offer once provider i offers the list ps.
Offered(i, ps) == SumTo([j \in ProviderIds |-> Len(IF j = i THEN ps ELSE pProxies[j])],
                        Len(providers))

NextProbe ==
  \/ \E g \in Routines : plainLoop(g)
  \/ \E g \in Routines : plainReturn(g)
  \/ \E g \in Routines : filterLoop(g)
  \/ \E g \in Routines : filterStore(g)
  \/ \E g \in Routines : filterCompare(g)
  \/ \E g \in Routines : filterArg(g)
  \/ \E g \in Routines : filterSwap(g)
  \/ \E g \in Routines : filterRead(g)
  \/ \E g \in Routines : filterWrite(g)
  \/ \E g \in Routines : filterWriteLen(g)
  \/ \E g \in Routines : filterLoopEnd(g)
  \/ \E g \in Routines : concatLoop(g)
  \/ \E g \in Routines : concatAppend(g)
  \/ \E g \in Routines : filterReturn(g)
  \/ \E i \in ProviderIds, ps \in ProxyLists :
       Offered(i, ps) <= MaxProbes /\ providerUpdate(i, ps)
  \/ \E g \in Routines : URLTest(g)
  \/ \E g \in Routines : urlTestLaunch(g)
  \/ \E g \in Routines : ctxCancel(g)
  \/ \E g \in Routines, k \in 1..MaxProbes, r \in ProbeReturns : probeReturn(g, k, r)
  \/ \E g \in Routines, k \in 1..MaxProbes : probeStore(g, k)
  \/ \E g \in Routines, k \in 1..MaxProbes : probeDone(g, k)
  \/ \E g \in Routines : urlTestWait(g)
  \/ \E g \in Routines : urlTestDone(g)

\* Every probe goroutine that was started runs to its end: proxy.URLTest
\* returns, lock is released by whoever holds it, wg.Done() is reached; and
\* the caller blocked in wg.Wait() runs once the barrier opens.
ProbeStep(g) ==
  \/ \E k \in 1..MaxProbes, r \in ProbeReturns : probeReturn(g, k, r)
  \/ \E k \in 1..MaxProbes : probeStore(g, k)
  \/ \E k \in 1..MaxProbes : probeDone(g, k)
ProbeFairness ==
  /\ \A g \in Routines : WF_vars(ProbeStep(g))
  /\ \A g \in Routines : WF_vars(urlTestWait(g))

\* URLTest of a group of up to MaxProbeFilters filters whose providers offer
\* up to MaxProbes proxies, one caller at a time.
InitProbe ==
  /\ InitResolve
  /\ Len(filterRegs) <= MaxProbeFilters

SpecProbe == InitProbe /\ [][NextProbe]_vars /\ ProbeFairness

\* ------------------------------------------------------------------ claims
Sweeping == {g \in Routines : pc[g] \in {"hc_store", "hc_wait"}}
AllIdle == \A g \in Routines : pc[g] \in {"idle", "off"}

\* C1: no two invocations of healthCheck are at once past the in-flight
\* check of line 214 and before the Store(false) of line 230.
C1_OneSweepAtATime == Cardinality(Sweeping) <= 1

\* Only countable failures were reported, and each was processed within the
\* window of the first.
Undisturbed == nRefused = 0 /\ nSuccess = 0 /\ ~expired

\* Countable failures whose increment of line 194 is done.
Counted == nFail - Cardinality({g \in Routines : pc[g] \in {"c_lock", "c_load", "c_store"}})

\* C7: from failedTimes = 0 and no sweep in flight, five countable failures
\* processed within the window of the first, with no success and no refusal
\* in between, start exactly one sweep: none while fewer than five are
\* counted, one by the time the fifth has been processed.
C7_Escalation ==
  (Undisturbed /\ nFail <= 5) =>
     /\ Counted < 5 => sweeps = 0
     /\ sweeps <= 1
     /\ (nFail = 5 /\ AllIdle) => sweeps = 1

C7_Witness ==
  /\ Undisturbed /\ nFail = 5 /\ AllIdle /\ sweeps = 1
  /\ failedTimes = 0 /\ now > failedTime

\* C8: a countable failure that is not the first of its window and is
\* processed more than the window after failedTime sets failedTimes to zero
\* and ends without calling healthCheck; so five failures of which one met
\* an expired window start no sweep.
C8_WindowExpiry ==
  /\ [][\A g \in Routines :
          (pc[g] = "c_since" /\ pc'[g] # "c_since" /\ now - failedTime > 5)
             => (failedTimes' = 0 /\ pc'[g] = "c_unlock" /\ sweeps' = sweeps)]_vars
  /\ []((nRefused = 0 /\ expired /\ nFail <= 5) => sweeps = 0)

C8_Witness ==
  nRefused = 0 /\ nSuccess = 0 /\ expired /\ nFail = 5 /\ AllIdle /\ sweeps = 0

\* C9: a connection-refused failure of a routed backend starts healthCheck
\* in a goroutine of its own, whatever failedTimes is, and the report leaves
\* failedTimes and failedTime as they are.
C9_RefusedTriggers ==
  [][nRefused' = nRefused + 1 =>
       /\ failedTimes' = failedTimes
       /\ failedTime' = failedTime
       /\ \E g \in Routines :
            pc[g] = "idle" /\ pc'[g] = "hc_load" /\ mode'[g] = "go"]_vars

C9_Witness ==
  \E g \in Routines :
    /\ pc[g] = "hc_wait" /\ mode[g] = "go"
    /\ failedTimes > 0 /\ failedTimes < maxFailedTimes

\* C10: onDialSuccess never writes failedTimes (line 240) while
\* failedTesting is true.
C10_NoWriteInFlight ==
  [][\A g \in Routines :
       (pc[g] = "s_store" /\ pc'[g] = "idle") => ~failedTesting]_vars

\* The calls of GetProxies that have returned, and what each returned.
Returned == {g \in Routines : ret[g] # <<>>}
Value(g) == ret[g][1]

MatchesAny(name) == \E k \in 1..Len(filterRegs) : Matches(filterRegs[k], name)

\* C2: with filters and a provider that is not Compatible, once no call of
\* GetProxies is in progress and the slot's version is the provider's, the
\* slot holds the filtered form of the provider's current list.
C2_SettledCoherent ==
  (Len(filterRegs) > 0 /\ AllIdle) =>
     \A i \in ProviderIds :
        (providers[i] # "Compatible" /\ versions[i] = pVersion[i])
           => /\ proxies[i] = Filtered(pProxies[i])
              /\ proxiesLen[i] = Len(proxies[i])

\* C3, as stated: each change of the provider's version causes exactly one
\* recompute of the slot: once no call is in progress and the slot's version
\* is the provider's, the slot has been recomputed as many times as the
\* provider's version changed.
C3_OnePerProviderChange ==
  (Len(filterRegs) > 0 /\ AllIdle) =>
     \A i \in ProviderIds :
        (providers[i] # "Compatible" /\ versions[i] = pVersion[i])
           => recomputes[i] = pVersion[i]

\* C3, amended: the slot of a provider that is not Compatible is recomputed
\* exactly once per change of the slot's cached version, however many
\* callers race: the cached version changes only in the step of a successful
\* CompareAndSwap, which moves it from the value the caller had loaded up to
\* a version the provider has had and makes that caller, and nobody else,
\* enter the recompute; the caller then reads the provider's list, filters
\* it and writes the slot, and nobody else writes it; a caller that finds
\* the loaded version equal to the provider's goes on to the next provider
\* without recomputing.  Changes of the provider's version with no swap
\* between them share one recompute: the slot is recomputed at most once
\* per change of the provider's version, and at least once before its
\* version leaves zero.
C3_OneRecompute ==
  /\ [][\A i \in ProviderIds :
          recomputes'[i] # recomputes[i] =>
             /\ recomputes'[i] = recomputes[i] + 1
             /\ \E g \in Routines :
                   /\ pc[g] = "f_cas" /\ pc'[g] = "f_read" /\ idx[g] = i
                   /\ versions[i] = version[g] /\ versions'[i] = arg[g]
                   /\ \A h \in Routines \ {g} : pc'[h] = pc[h]
             /\ versions[i] < versions'[i] /\ versions'[i] <= pVersion[i]]_vars
  /\ [][\A i \in ProviderIds :
          providers[i] # "Compatible" =>
             /\ versions'[i] # versions[i] <=> recomputes'[i] # recomputes[i]
             /\ (proxies'[i] # proxies[i] \/ proxiesLen'[i] # proxiesLen[i])
                   => \E g \in Routines :
                         /\ pc[g] \in {"f_write", "f_wlen"} /\ pc'[g] # pc[g]
                         /\ idx[g] = i]_vars
  /\ [][\A g \in Routines :
          LET i == idx[g]
          IN (pc'[g] \notin {pc[g], "panic"} /\ i \in ProviderIds) =>
                (providers[i] # "Compatible" =>
                   /\ pc'[g] = "f_read" => (pc[g] = "f_cas" /\ versions'[i] # versions[i])
                   /\ pc[g] = "f_read"
                         => (pc'[g] = "f_write"
                             /\ newProxies'[g] = Filtered(pProxies[i]))
                   /\ pc[g] = "f_write"
                         => (pc'[g] = "f_wlen" /\ proxies'[i] = newProxies[g])
                   /\ pc[g] = "f_wlen"
                         => (pc'[g] = "f_loop"
                             /\ proxiesLen'[i] = Len(newProxies[g])))]_vars
  /\ [][\A g \in Routines :
          (pc[g] = "f_cmp" /\ pc'[g] \notin {pc[g], "panic"}
           /\ version[g] = pVersion[idx[g]])
             => (pc'[g] = "f_loop" /\ idx'[g] = idx[g] + 1
                 /\ recomputes' = recomputes /\ proxies' = proxies)]_vars
  /\ [](\A i \in ProviderIds :
          /\ recomputes[i] <= pVersion[i]
          /\ providers[i] # "Compatible" => recomputes[i] <= versions[i]
          /\ (providers[i] # "Compatible" /\ versions[i] # 0) => recomputes[i] >= 1)

\* Two callers raced for the same slot: one has won the swap and recomputes,
\* the other is about to lose it.
C3_Witness ==
  \E g, h \in Routines :
    /\ g # h /\ pc[g] = "f_read" /\ pc[h] = "f_cas" /\ idx[g] = idx[h]
    /\ version[h] # versions[idx[h]]
    /\ recomputes[idx[g]] = 1

\* C4: no name appears twice in a result of GetProxies.
C4_NoDuplicates == \A g \in Returned : NoDuplicate(Value(g))

\* What the last pass over the first n providers found, end to end:
\* their lists when no filter is configured, their slots otherwise.
RECURSIVE Joined(_)
Joined(n) ==
  IF n = 0 THEN <<>>
  ELSE Joined(n - 1) \o (IF Len(filterRegs) = 0 THEN pProxies[n] ELSE proxies[n])

\* C4, amended: whatever the providers offer, a name twice included, no
\* name appears twice in a result when the cross-provider pass runs (more
\* than one provider and more than one filter), when no provider is
\* configured, or when filters are configured and the only provider is not
\* Compatible; in every other case where the cross-provider pass does not
\* run, a call nothing interfered with returns what it found end to end,
\* every name as often as it is there (or the fallback when it found
\* nothing).
C4_NoDuplicatesWhenDeduplicated ==
  \A g \in Returned :
     /\ (\/ (Len(providers) > 1 /\ Len(filterRegs) > 1)
         \/ Len(providers) = 0
         \/ (Len(filterRegs) > 0 /\ Len(providers) = 1
             /\ providers[1] # "Compatible"))
           => NoDuplicate(Value(g))
     /\ (alone[g] /\ ~(Len(providers) > 1 /\ Len(filterRegs) > 1)) =>
           Value(g) = IF Joined(Len(providers)) = <<>> THEN <<Fallback>>
                      ELSE Joined(Len(providers))

\* The cross-provider pass has returned once a name that two slots hold.
C4_Witness ==
  \E g \in Returned :
    /\ alone[g] /\ SecondPass
    /\ \E n \in Range(proxies[1]) \cap Range(proxies[2]) : n \in Range(Value(g))
    /\ \E i \in ProviderIds : ~NoDuplicate(proxies[i])

\* C5: with at least one filter and without the cross-provider pass, every
\* proxy returned (the fallback aside) matches a filter.
C5_OnlyMatched ==
  \A g \in Returned :
     (Len(filterRegs) >= 1 /\ ~SecondPass /\ Value(g) # <<Fallback>>)
        => \A k \in 1..Len(Value(g)) : MatchesAny(Value(g)[k])

\* C5, amended: with at least one filter, every proxy returned (the fallback
\* aside) matches a filter when no provider is Compatible; and when the
\* cross-provider pass runs, no proxy that matches no filter precedes one
\* that matches.
C5_MatchedUnlessCompatible ==
  \A g \in Returned :
     (Len(filterRegs) >= 1 /\ Value(g) # <<Fallback>>) =>
        /\ (\A i \in ProviderIds : providers[i] # "Compatible")
              => \A k \in 1..Len(Value(g)) : MatchesAny(Value(g)[k])
        /\ SecondPass
              => \A j, k \in 1..Len(Value(g)) :
                    (~MatchesAny(Value(g)[j]) /\ MatchesAny(Value(g)[k])) => k < j

\* The cross-provider pass has returned a proxy of a Compatible provider
\* that matches no filter, after one that matches.
C5_Witness ==
  \E g \in Returned :
    /\ SecondPass /\ Len(Value(g)) = 2
    /\ MatchesAny(Value(g)[1]) /\ ~MatchesAny(Value(g)[2])
    /\ \E i \in ProviderIds :
         providers[i] = "Compatible" /\ Value(g)[2] \in Range(pProxies[i])

\* What the last pass over the providers found for provider i: its list
\* when no filter is configured, its slot otherwise.
Found(i) == IF Len(filterRegs) = 0 THEN pProxies[i] ELSE proxies[i]

\* C6: GetProxies never returns the empty sequence; the fallback is returned
\* only on its own; with no provider the result is the fallback alone; and a
\* call nothing interfered with returns the fallback alone exactly when the
\* providers (without filters) or the slots (with filters) hold no proxy.
C6_Fallback ==
  \A g \in Returned :
     /\ Len(Value(g)) >= 1
     /\ Fallback \in Range(Value(g)) => Value(g) = <<Fallback>>
     /\ Len(providers) = 0 => Value(g) = <<Fallback>>
     /\ alone[g] => (Value(g) = <<Fallback>> <=> \A i \in ProviderIds : Found(i) = <<>>)

\* A call with touch set found a provider that offers proxies, none of which
\* the filters keep, and returned the fallback.
C6_Witness ==
  \E g \in Returned :
    /\ alone[g] /\ touch[g] /\ Len(filterRegs) > 0
    /\ Value(g) = <<Fallback>>
    /\ \E i \in ProviderIds : pProxies[i] # <<>>

\* The calls of URLTest that have returned, and what each returned.
Tested == {g \in Routines : result[g] # <<>>}
Keys(g) == DOMAIN result[g][1].mp
Probes(g) == 1..Len(tested[g])

\* C11: the keys of the map URLTest returns are exactly the names of the
\* proxies of its GetProxies result whose probe returned without error, and
\* it returns the error "all proxies timeout" exactly when the map is empty.
C11_SuccessesOrError ==
  \A g \in Tested :
     /\ Keys(g) = {tested[g][k] : k \in {j \in Probes(g) : outcome[g][j] = "nil"}}
     /\ result[g][1].err = AllTimeout <=> Keys(g) = {}
     /\ result[g][1].err \in {AllTimeout, "nil"}

\* Some probes succeeded and one failed: the successes are returned, with no
\* error.
C11_Witness ==
  \E g \in Tested :
    /\ Len(tested[g]) >= 3
    /\ \E j, k \in Probes(g) :
         /\ outcome[g][j] = "nil" /\ outcome[g][k] = "timeout"
         /\ tested[g][j] # tested[g][k]
    /\ Keys(g) # {} /\ result[g][1].err = "nil"

\* Every probe failed: the error is returned.
C11_WitnessAllFailed ==
  \E g \in Tested :
    /\ Len(tested[g]) >= 2
    /\ \A k \in Probes(g) : outcome[g][k] = "timeout"
    /\ Keys(g) = {} /\ result[g][1].err = AllTimeout

\* C12: an invocation of healthCheck that loads failedTesting as true
\* returns at once: it starts no provider's HealthCheck, leaves failedTesting
\* and failedTimes as they are, and the sweeps that are active stay the same.
C12_NoOpWhenInFlight ==
  [][\A g \in Routines :
       (pc[g] = "hc_load" /\ pc'[g] # "hc_load" /\ failedTesting) =>
          /\ pc'[g] = Return(g)
          /\ pending' = pending /\ sweeps' = sweeps
          /\ failedTesting' = failedTesting /\ failedTimes' = failedTimes
          /\ {h \in Routines : pc'[h] \in {"hc_store", "hc_wait"}} = Sweeping]_vars

\* A counter goroutine called healthCheck at the threshold while the only
\* sweep of the run was in flight, and is back without having swept.
C12_Witness ==
  \E g, h \in Routines :
    /\ g # h /\ pc[g] = "c_unlock" /\ mode[g] = "call" /\ pc[h] = "hc_wait"
    /\ failedTesting /\ sweeps = 1 /\ failedTimes >= maxFailedTimes

\* C13: a failure reported for a backend of kind Direct, Reject, Pass or
\* Compatible, whatever its error, changes no field of the group and starts
\* no goroutine.
C13_SentinelNoOp ==
  [][lastSentinel' # lastSentinel =>
       UNCHANGED <<failedTimes, failedTime, failedTesting, failedTestMux, pc, mode,
                   reg, pending, sweeps, nFail, nRefused>>]_vars

\* A connection-refused failure of a sentinel backend was reported to a
\* group that counts failures, and nothing but it: no sweep was started.
C13_Witness ==
  /\ lastSentinel = << <<"dial tcp", "connection refused">> >>
  /\ nRefused = 0 /\ sweeps = 0 /\ failedTimes = 2 /\ AllIdle

\* The steps that write gb.failedTimes or gb.failedTime.
Writes(g) ==
  /\ pc[g] \in {"c_store", "c_first", "c_since", "hc_reset", "s_store"}
  /\ pc'[g] # pc[g]
  /\ (pc[g] = "c_first" => failedTime' # failedTime)
  /\ (pc[g] = "c_since" => pc'[g] = "c_unlock")

\* C15: every write of failedTimes or failedTime is made by the routine that
\* holds failedTestMux.
C15_WritesUnderLock ==
  [][\A g \in Routines : Writes(g) => failedTestMux = g]_vars

\* C16: failedTesting is true exactly when some invocation of healthCheck is
\* between its Store(true) and its Store(false).
C16_FlagAccurate ==
  failedTesting <=> \E g \in Routines : pc[g] = "hc_wait"

\* C17: a sweep sets failedTesting and starts the HealthCheck of every
\* provider; it clears failedTesting only when all of them have returned,
\* and then sets failedTimes to zero, on the threshold path and on the
\* connection-refused path alike.
C17_SweepOrder ==
  /\ [][\A g \in Routines :
          /\ (pc[g] = "hc_store" /\ pc'[g] # "hc_store")
                => (failedTesting' /\ pending'[g] = ProviderIds /\ pc'[g] = "hc_wait")
          /\ (pc[g] = "hc_wait" /\ pc'[g] # "hc_wait")
                => (pending[g] = {} /\ ~failedTesting' /\ pc'[g] = "hc_reset"
                    /\ failedTimes' = failedTimes)
          /\ (pc[g] = "hc_reset" /\ pc'[g] # "hc_reset")
                => (failedTimes' = 0 /\ pc'[g] = Return(g))]_vars
  /\ [](\A g \in Routines : pc[g] = "hc_reset" => pending[g] = {})

\* A sweep started by a connection-refused failure is over and about to set
\* a counter that is not zero to zero.
C17_Witness ==
  \E g \in Routines :
    /\ pc[g] = "hc_reset" /\ mode[g] = "go" /\ pending[g] = {}
    /\ failedTimes > 0 /\ ~failedTesting

\* C14, as stated: the name of a proxy whose probe returned with the error
\* of the cancelled ctx is not a key of the map URLTest returns.
C14_CancelledAbsent ==
  \A g \in Tested : \A k \in Probes(g) :
     outcome[g][k] = "context canceled" => tested[g][k] \notin Keys(g)

\* C14, amended: URLTest starts one probe for each proxy of its GetProxies
\* result and returns only when every one of them has returned; when every
\* probe returns, URLTest returns; a probe that returns with the error of
\* the cancelled ctx writes nothing to the map, so its proxy's name is a key
\* of the result only when another proxy of that name was probed with
\* success.
C14_BarrierAndCancelled ==
  /\ [][\A g \in Routines :
          /\ (pc[g] = "g_done" /\ pc'[g] = "u_wait")
                => (tested'[g] = ret[g][1]
                    /\ outcome'[g] = [k \in 1..Len(ret[g][1]) |-> "run"]
                    /\ probe'[g] = [k \in 1..Len(ret[g][1]) |-> "l161"])
          /\ (pc[g] = "u_wait" /\ pc'[g] = "u_done")
                => (\A k \in Probes(g) : outcome[g][k] # "run" /\ probe[g][k] = "end")
          /\ (pc[g] = "u_wait" /\ mp'[g] # mp[g])
                => \E k \in Probes(g) :
                      /\ probe[g][k] = "l163" /\ probe'[g][k] = "l168"
                      /\ outcome[g][k] = "nil"
                      /\ mp'[g] = <<Put(mp[g][1], tested[g][k], delay[g][k])>>]_vars
  /\ [](\A g \in Routines : \A k \in Probes(g) :
          (pc[g] = "u_wait" /\ outcome[g][k] = "context canceled")
             => probe[g][k] \in {"l168", "end"})
  /\ [](\A g \in Tested : \A k \in Probes(g) :
          (outcome[g][k] = "context canceled" /\ tested[g][k] \in Keys(g))
             => \E j \in Probes(g) :
                   j # k /\ tested[g][j] = tested[g][k] /\ outcome[g][j] = "nil")
  /\ (\E g \in Routines : pc[g] = "u_wait") ~> (\E g \in Routines : pc[g] = "u_done")

\* URLTest has returned after the ctx was cancelled: one probe had returned
\* with success, and the proxy of a probe the cancellation ended is absent.
C14_Witness ==
  \E g \in Tested : \E j, k \in Probes(g) :
    /\ ctxDone[g]
    /\ outcome[g][j] = "nil" /\ outcome[g][k] = "context canceled"
    /\ tested[g][j] \in Keys(g) /\ tested[g][k] \notin Keys(g)

\* The first filter that matches a name (one past the last when none does),
\* and the first position of a name in a list.
FirstFilter(name) ==
  IF MatchesAny(name)
  THEN CHOOSE k \in 1..Len(filterRegs) :
         /\ Matches(filterRegs[k], name)
         /\ \A j \in 1..(k - 1) : ~Matches(filterRegs[j], name)
  ELSE Len(filterRegs) + 1
FirstPos(name, ps) ==
  CHOOSE k \in 1..Len(ps) : ps[k] = name /\ \A j \in 1..(k - 1) : ps[j] # name

\* r holds the names of ps once each, ordered by the first filter that
\* matches them and then by their first position in ps; the names no filter
\* matches come last, in the order of ps.
Reordered(ps, r) ==
  /\ NoDuplicate(r)
  /\ Range(r) = Range(ps)
  /\ \A j, k \in 1..Len(r) :
        j < k => \/ FirstFilter(r[j]) < FirstFilter(r[k])
                 \/ /\ FirstFilter(r[j]) = FirstFilter(r[k])
                    /\ FirstPos(r[j], ps) < FirstPos(r[k], ps)

\* C18: GetProxies returns a combined list that is not empty reordered as
\* above when more than one provider and more than one filter are
\* configured, and as it is otherwise.
C18_CrossProviderPass ==
  [][\A g \in Routines :
       (pc[g] \in {"f_cat", "n_loop"} /\ pc'[g] = "g_done" /\ list[g] # <<>>) =>
          IF Len(providers) > 1 /\ Len(filterRegs) > 1
          THEN Reordered(list[g], ret'[g][1])
          ELSE ret'[g][1] = list[g]]_vars

\* The pass has moved a matched proxy before two that no filter matches and
\* has dropped the second occurrence of a name.
C18_Witness ==
  \E g \in Returned :
    LET ps == proxies[1] \o proxies[2]
        r == Value(g)
    IN /\ alone[g] /\ Len(providers) = 2 /\ Len(filterRegs) = 2
       /\ Len(r) >= 3 /\ Len(r) < Len(ps)
       /\ ~MatchesAny(r[Len(r)]) /\ ~MatchesAny(r[Len(r) - 1])
       /\ r[Len(r)] # r[Len(r) - 1]
       /\ MatchesAny(ps[Len(ps)])

\* The Compatible providers of the group.
Passthrough == {i \in ProviderIds : providers[i] = "Compatible"}

\* C19, as stated: with filters, after a call of GetProxies that ran alone
\* the slot of a Compatible provider has the provider's version and holds
\* the filtered form of the provider's list.
C19_CompatibleFiltered ==
  \A g \in Returned :
     (alone[g] /\ Len(filterRegs) > 0) =>
        \A i \in Passthrough :
           versions[i] = pVersion[i] /\ proxies[i] = Filtered(pProxies[i])

\* C19, amended: with filters, every call of GetProxies reads the version
\* of a Compatible provider and stores it, then stores the provider's list
\* as it is in the slot, whether or not the cached version was the
\* provider's; after a call that ran alone the slot has the provider's
\* version and holds the provider's list, unfiltered.
C19_CompatibleUnfiltered ==
  /\ [][\A g \in Routines :
          LET i == idx[g]
          IN (pc[g] \in {"f_loop", "f_store", "f_read", "f_write", "f_wlen"}
              /\ pc'[g] \notin {pc[g], "panic"} /\ i \in Passthrough) =>
                CASE pc[g] = "f_loop" ->
                       pc'[g] = "f_store" /\ arg'[g] = pVersion[i]
                  [] pc[g] = "f_store" ->
                       pc'[g] = "f_read" /\ versions'[i] = arg[g]
                  [] pc[g] = "f_read" ->
                       pc'[g] = "f_write" /\ newProxies'[g] = pProxies[i]
                  [] pc[g] = "f_write" ->
                       pc'[g] = "f_wlen" /\ proxies'[i] = newProxies[g]
                  [] pc[g] = "f_wlen" ->
                       pc'[g] = "f_loop" /\ proxiesLen'[i] = Len(newProxies[g])]_vars
  /\ [](\A g \in Returned :
          (alone[g] /\ Len(filterRegs) > 0) =>
             \A i \in Passthrough :
                /\ versions[i] = pVersion[i]
                /\ proxies[i] = pProxies[i] /\ proxiesLen[i] = Len(proxies[i]))

\* A call re-reads the list of a Compatible provider whose slot an earlier
\* call had brought up to date; the slot holds a proxy no filter matches.
C19_Witness ==
  \E g \in Routines :
    /\ pc[g] = "f_read" /\ alone[g] /\ idx[g] \in Passthrough
    /\ pVersion[idx[g]] >= 1
    /\ proxies[idx[g]] = pProxies[idx[g]]
    /\ \E k \in 1..Len(proxies[idx[g]]) : ~MatchesAny(proxies[idx[g]][k])

\* C20: when every provider's HealthCheck returns, every goroutine started
\* for a dial failure ends, failedTestMux is released by whoever holds it,
\* and every sweep that has executed Store(true) executes Store(false);
\* while a routine is at work some routine can take a step.
C20_Progress ==
  /\ \A g \in Routines : (pc[g] # "idle") ~> (pc[g] = "idle")
  /\ (failedTestMux # 0) ~> (failedTestMux = 0)
  /\ \A g \in Routines : (pc[g] = "hc_wait") ~> (pc[g] = "hc_reset")
  /\ [](~AllIdle => \E g \in Routines : ENABLED Step(g))

\* The threshold path runs a sweep while it holds the lock, and a
\* connection-refused failure has started healthCheck in another goroutine.
C20_Witness ==
  \E g, h \in Routines :
    /\ failedTestMux = g /\ pc[g] = "hc_wait" /\ mode[g] = "call" /\ pending[g] # {}
    /\ pc[h] = "hc_load" /\ mode[h] = "go"

====
